---- MODULE Spec2Model ----
(***************************************************************************)
(* State-machine model of class IMPAaCS (src/impacts.py): the grid-state   *)
(* engine of the IMPaCS impact simulation.                                 *)
(*                                                                         *)
(* Number representation.                                                  *)
(*   - SiO2 compositions are stored in tenths of a percent (45.0 -> 450):  *)
(*     state_dynamics rounds every layer it writes to one decimal.         *)
(*   - Unrounded floats (average_target, the upper and lower melt values,  *)
(*     the mean of the two top layers) are exact rationals [num, den] in   *)
(*     tenths; den = 0 is the float nan that 0.0/0 produces.               *)
(*   - Rounding to one decimal is exact except at a tie (a value exactly   *)
(*     halfway between two tenths), where the float the code rounds lies   *)
(*     just above or just below the tie: both outcomes are modelled, and   *)
(*     rounds_up records which one an event took.                          *)
(*   - Coordinates are tenths of a degree, distances are millimetres.      *)
(*   - Layer i of the source (0-based) is element i+1 of a column.         *)
(***************************************************************************)
EXTENDS Integers, Sequences, FiniteSets, TLC

VARIABLES
    z_discretized_km,         \* constructor argument (km per layer)
    primitive_initial_state,  \* constructor argument (tenths of a percent)
    grid_cell_state,          \* self.grid_cell_state: cell -> column
    average_target,           \* self.average_target, a rational
    impacted_grid_cells,      \* self.impacted_grid_cells, in append order
    crator_radius,            \* self.crator_radius (km)
    z_layers,                 \* self.z_layers
    sim_time,                 \* self.sim_time
    sample_percents,          \* self.sample_percents: bin -> rational percent
    impact_loc,               \* argument of the last update call <<lat, lon>>
    impactor_diameter,        \* argument of the last update call (km)
    melt_layers,              \* local of the last state_dynamics call
    upper_layer,              \* local of the last state_dynamics call
    lower_layer,              \* local of the last state_dynamics call
    raised,                   \* the last update call ended in an IndexError
    rounds_up,                \* how np.round fell at a tie in the last update
    pre_state,                \* history: grid_cell_state when update was called
    last_call,                \* the method that ran last
    temp_state,               \* argument of a direct re_bin_sio2 call
    rebin_result              \* what that call returned

vars == <<z_discretized_km, primitive_initial_state, grid_cell_state,
          average_target, impacted_grid_cells, crator_radius, z_layers,
          sim_time, sample_percents, impact_loc, impactor_diameter,
          melt_layers, upper_layer, lower_layer, raised, rounds_up,
          pre_state, last_call, temp_state, rebin_result>>

(***************************************************************************)
(* Bounds of the model.                                                    *)
(***************************************************************************)
\* max_depth_of_impact_melt (default 330 km), scaled down with the diameters
max_depth_of_impact_melt == 12
\* number of update calls in one run
MaxEvents == 3

\* values of z_discretized_km tried (default 2)
ZChoices == {1, 2}
\* values of primitive_initial_state tried, in tenths (default 45)
PrimitiveChoices == {450, 905}
\* impactor diameters the driver draws, km
Diameters == {0, 3, 12, 36, 42}
\* impact locations the driver draws, <<lat, lon>> in tenths of a degree
Locations == {<<0, 0>>, <<0, 2>>, <<1, 1>>, <<2, 2>>}
\* values handed to re_bin_sio2 directly, in twentieths of a percent
RebinInputs == {[num |-> n, den |-> 2] : n \in (0 - 30)..2030}

(***************************************************************************)
(* Program constants.                                                      *)
(***************************************************************************)
target_SiO2 == 6258               \* 62.58, in hundredths
upper_SiO2 == 6871                \* 68.71, in hundredths
fraction_upper_num == 2           \* fraction_upper_layer = 2/3
fraction_upper_den == 3
proportion_melt_num == 1          \* proportion_melt_from_impact = 1/3
proportion_melt_den == 3
crator_factor == 10               \* crator_diameter = 10 * impactor_diameter
DminStart == 10000000             \* km
proximity_km == 30                \* fallback threshold of find_the_grid
s_min == 1                        \* re_bin_sio2 defaults
s_max == 100
ds == 1
NaN == 0 - 1000000000             \* a layer value that is the float nan
None == 0 - 1                     \* Python's None as a bin

\* kilometres in millimetres, and millimetres in whole kilometres
Km(x) == x * 1000000
Mm2Km(x) == x \div 1000000

(***************************************************************************)
(* Rational helpers.                                                       *)
(***************************************************************************)
Rat(n, d) == [num |-> n, den |-> d]
RatNaN == Rat(0, 0)
IsNaN(r) == r.den = 0

Abs(x) == IF x < 0 THEN 0 - x ELSE x

RECURSIVE GCD(_, _)
GCD(a, b) == IF b = 0 THEN a ELSE GCD(b, a % b)

\* n/d in lowest terms, d > 0
Norm(n, d) == LET g == GCD(Abs(n), d) IN Rat(n \div g, d \div g)

\* a * b, a - b and a / b of floats; a nan operand gives nan
RMul(a, b) ==
    IF IsNaN(a) \/ IsNaN(b) THEN RatNaN
    ELSE LET g1 == GCD(Abs(a.num), b.den)
             g2 == GCD(Abs(b.num), a.den)
         IN  Rat((a.num \div g1) * (b.num \div g2),
                 (a.den \div g2) * (b.den \div g1))

RSub(a, b) ==
    IF IsNaN(a) \/ IsNaN(b) THEN RatNaN
    ELSE LET l == (a.den \div GCD(a.den, b.den)) * b.den
         IN  Norm(a.num * (l \div a.den) - b.num * (l \div b.den), l)

\* b > 0
RDiv(a, b) == IF IsNaN(b) THEN RatNaN ELSE RMul(a, Rat(b.den, b.num))

\* n/d rounded to the nearest integer, ties to even (np.round, Python round)
RoundDiv(n, d) ==
    LET q == n \div d
        r == n % d
    IN  IF 2 * r < d THEN q
        ELSE IF 2 * r > d THEN q + 1
        ELSE IF q % 2 = 0 THEN q ELSE q + 1

\* int(x) of a non-negative n/d
IntOf(n, d) == n \div d

\* math.ceil / np.ceil of n/d, d > 0
CeilDiv(n, d) == 0 - ((0 - n) \div d)

Min(S) == CHOOSE x \in S : \A y \in S : x <= y
Max(S) == CHOOSE x \in S : \A y \in S : x >= y

RECURSIVE SeqSum(_)
SeqSum(s) ==
    IF Len(s) = 0 THEN 0
    ELSE IF Head(s) = NaN THEN NaN
    ELSE LET rest == SeqSum(Tail(s))
         IN  IF rest = NaN THEN NaN ELSE Head(s) + rest

\* s[:n] of a numpy array, n >= 0
Slice(s, n) == SubSeq(s, 1, IF n < Len(s) THEN n ELSE Len(s))

(***************************************************************************)
(* distance(lat1, lat2, lon1, lon2): the haversine distance with           *)
(* R = 6373 km, tabulated in millimetres for the coordinates of the model  *)
(* (values of the source's formula in double precision, rounded to 1 mm;   *)
(* no two distinct doubles of the table round to the same millimetre).     *)
(* It depends on the coordinates as the formula does: on both latitudes    *)
(* and on the difference of the longitudes.                                *)
(***************************************************************************)
distance(lat1, lat2, lon1, lon2) ==
    LET dlon == Abs(lon2 - lon1)
        k == <<lat1, lat2, dlon>>
    IN  CASE k = <<0, 0, 0>> -> 0
          [] k = <<0, 4, 0>> -> 44491933
          [] k = <<0, 0, 4>> -> 44491933
          [] k = <<0, 4, 4>> -> 62920840
          [] k = <<0, 0, 2>> -> 22245967
          [] k = <<0, 4, 2>> -> 49743413
          [] k = <<1, 0, 1>> -> 15730270
          [] k = <<1, 4, 1>> -> 35173924
          [] k = <<1, 0, 3>> -> 35173946
          [] k = <<1, 4, 3>> -> 47190570
          [] k = <<2, 0, 2>> -> 31460516
          [] k = <<2, 4, 2>> -> 31460324

(***************************************************************************)
(* The working grid: get_subset_of_grids keeps the grid values strictly    *)
(* inside the bounding box, in order and without duplicates.               *)
(***************************************************************************)
egrid_londim == <<0, 4>>
egrid_latdim == <<0, 4>>
lon_lims == <<0 - 1800, 1800>>
lat_lims == <<0 - 450, 450>>

RECURSIVE Dedup(_)
Dedup(s) ==
    IF Len(s) = 0 THEN <<>>
    ELSE LET front == Dedup(SubSeq(s, 1, Len(s) - 1))
             x == s[Len(s)]
         IN  IF \E i \in 1..Len(front) : front[i] = x THEN front
             ELSE Append(front, x)

lon_subset ==
    IF \E j \in 1..Len(egrid_latdim) :
          egrid_latdim[j] > lat_lims[1] /\ egrid_latdim[j] < lat_lims[2]
    THEN Dedup(SelectSeq(egrid_londim,
                   LAMBDA x : x > lon_lims[1] /\ x < lon_lims[2]))
    ELSE <<>>

lat_subset ==
    IF \E i \in 1..Len(egrid_londim) :
          egrid_londim[i] > lon_lims[1] /\ egrid_londim[i] < lon_lims[2]
    THEN Dedup(SelectSeq(egrid_latdim,
                   LAMBDA y : y > lat_lims[1] /\ y < lat_lims[2]))
    ELSE <<>>

\* the cells <<lon, lat>> in the order the nested loops visit them
GridCells ==
    [k \in 1..(Len(lon_subset) * Len(lat_subset)) |->
        <<lon_subset[((k - 1) \div Len(lat_subset)) + 1],
          lat_subset[((k - 1) % Len(lat_subset)) + 1]>>]

CellSet == {GridCells[k] : k \in 1..Len(GridCells)}

SeqSet(s) == {s[k] : k \in 1..Len(s)}

(***************************************************************************)
(* state_prep                                                              *)
(***************************************************************************)
total_layers(z) == IntOf(max_depth_of_impact_melt, z)

state_prep(z, prim) ==
    [c \in CellSet |-> [i \in 1..total_layers(z) |-> prim]]

(***************************************************************************)
(* impact_dimensions                                                       *)
(***************************************************************************)
impact_dimensions(diameter, z) ==
    LET crator_diameter == crator_factor * diameter
    IN  [crator_radius |-> crator_diameter \div 2,
         z_layers |-> CeilDiv(diameter, z)]

(***************************************************************************)
(* find_the_grid: the cells within the crater radius, in loop order; when  *)
(* there is none and the nearest cell is closer than 30 km, the cells at   *)
(* exactly the minimum distance.                                           *)
(***************************************************************************)
CellDistance(loc, c) == distance(loc[1], c[2], loc[2], c[1])

\* the distances that replace Dmin in the loop: those below its start value
\* of 10000000 km (D mm < x km iff D \div 10^6 < x)
Closer(loc) ==
    {CellDistance(loc, c) : c \in
        {c \in CellSet : Mm2Km(CellDistance(loc, c)) < DminStart}}

\* Dmin < 30 after the loop
DminBelowProximity(loc) ==
    Closer(loc) # {} /\ Min(Closer(loc)) < Km(proximity_km)

\* FallbackCells that stops at the first cell at the minimum distance
FallbackFirstOnly(loc) ==
    SubSeq(SelectSeq(GridCells,
               LAMBDA c : CellDistance(loc, c) = Min(Closer(loc))), 1, 1)

\* lines 193-197, run when Dmin < 30
FallbackCells(loc) ==
    SelectSeq(GridCells, LAMBDA c : CellDistance(loc, c) = Min(Closer(loc)))

find_the_grid(loc, radius) ==
    LET inside == SelectSeq(GridCells,
                      LAMBDA c : CellDistance(loc, c) <= Km(radius))
    IN  IF Len(inside) < 1
        THEN IF DminBelowProximity(loc) THEN FallbackCells(loc) ELSE <<>>
        ELSE inside

(***************************************************************************)
(* get_average_target: the sum of the top z_layers values of every         *)
(* impacted cell, divided by len(impacted_grid_cells) * z_layers.          *)
(***************************************************************************)
RECURSIVE TargetSum(_, _, _, _)
TargetSum(state, cells, zl, prim) ==
    IF Len(cells) = 0 THEN 0
    ELSE LET c == Head(cells)
             part == IF c \in DOMAIN state
                     THEN SeqSum(Slice(state[c], zl))
                     ELSE prim * zl
             rest == TargetSum(state, Tail(cells), zl, prim)
         IN  IF part = NaN \/ rest = NaN THEN NaN ELSE part + rest

get_average_target(state, cells, zl, prim) ==
    LET total == TargetSum(state, cells, zl, prim)
    IN  IF total = NaN \/ Len(cells) * zl = 0 THEN RatNaN
        ELSE Norm(total, Len(cells) * zl)

(***************************************************************************)
(* state_dynamics on one column.                                           *)
(***************************************************************************)
\* MeltLayers that melts at least one layer
MeltLayersAtLeastOne(diameter, z) ==
    IF IntOf(diameter * proportion_melt_num, proportion_melt_den * z) < 1
    THEN 1
    ELSE IntOf(diameter * proportion_melt_num, proportion_melt_den * z)

\* MeltLayers that rounds the layer count up
MeltLayersCeil(diameter, z) ==
    CeilDiv(diameter * proportion_melt_num, proportion_melt_den * z)

MeltLayers(diameter, z) ==
    IntOf(diameter * proportion_melt_num, proportion_melt_den * z)

fraction_upper_layer == Norm(fraction_upper_num, fraction_upper_den)
fraction_lower_layer == RSub(Rat(1, 1), fraction_upper_layer)
fractionation_factor ==
    RSub(Rat(1, 1), RDiv(Rat(target_SiO2, 1), Rat(upper_SiO2, 1)))

\* LayerSplit as int(round(fraction_upper_layer * melt_layers))
LayerSplitNearest(m) ==
    RoundDiv(fraction_upper_layer.num * m, fraction_upper_layer.den)

\* int(round(fraction_upper_layer * melt_layers, 2))
LayerSplit(m) ==
    IntOf(RoundDiv(100 * fraction_upper_layer.num * m,
                   fraction_upper_layer.den), 100)

LowerLayer(m) == {i \in 0..(m - 1) : i >= LayerSplit(m)}
UpperLayer(m) == {i \in 0..(m - 1) : i < LayerSplit(m)}

\* line 139: average_target / (1 - fractionation_factor)
UpperValue(avg) == RDiv(avg, RSub(Rat(1, 1), fractionation_factor))

\* lines 146-147: (average_target - fraction_upper_layer * wt_sio2_upper)
\*                / fraction_lower_layer
LowerValue(avg, wt) ==
    RDiv(RSub(avg, RMul(fraction_upper_layer, wt)), fraction_lower_layer)

\* a rational in tenths exactly halfway between two tenths
IsTie(r) == ~IsNaN(r) /\ 2 * (r.num % r.den) = r.den

\* np.round(x, 1) of a rational in tenths; at a tie the float is rounded up
\* or down
Round1(r, up) ==
    IF IsNaN(r) THEN NaN
    ELSE IF IsTie(r) THEN (r.num \div r.den) + (IF up THEN 1 ELSE 0)
    ELSE RoundDiv(r.num, r.den)

NoTies == [upper |-> FALSE, lower |-> FALSE]

AsRat(v) == IF v = NaN THEN RatNaN ELSE Rat(v, 1)

\* WriteLayers on a container that grows when written past its end
WriteLayersGrowing(col, idx, v) ==
    LET top == IF idx = {} \/ Max(idx) < Len(col) THEN Len(col)
               ELSE Max(idx) + 1
    IN  [col |-> [j \in 1..top |->
                     IF (j - 1) \in idx THEN v
                     ELSE IF j <= Len(col) THEN col[j] ELSE v],
         raised |-> FALSE]

\* column[i] = v for every i of idx; an index past the end raises IndexError
\* after the writes before it (the ranges are visited in ascending order)
WriteLayers(col, idx, v) ==
    [col |-> [j \in 1..Len(col) |-> IF (j - 1) \in idx THEN v ELSE col[j]],
     raised |-> \E i \in idx : i >= Len(col)]

\* wt_sio2_upper for a melt of m layers (line 142): layer 0 after the upper
\* layer is written and before the rounding
WtSiO2Upper(col, m, avg, prim) ==
    IF 0 \in UpperLayer(m) THEN UpperValue(avg)
    ELSE IF 0 \in LowerLayer(m) THEN AsRat(prim)
    ELSE AsRat(col[1])

state_dynamics(col, diameter, avg, z, prim, ties) ==
    LET m == MeltLayers(diameter, z)
        lower == LowerLayer(m)
        upper == UpperLayer(m)
        \* lines 134-135: lower layer set to the primitive state
        p1 == WriteLayers(col, lower, prim)
        \* lines 138-139: upper layer
        uval == UpperValue(avg)
        p2 == WriteLayers(p1.col, upper, Round1(uval, ties.upper))
        \* line 142: wt_sio2_upper is layer 0 as it is now, not yet rounded
        wt == WtSiO2Upper(col, m, avg, prim)
        \* lines 145-147: lower layer again; lines 149-150: rounding
        p3 == WriteLayers(p2.col, lower,
                  Round1(LowerValue(avg, wt), ties.lower))
    IN  IF p1.raised THEN [col |-> p1.col, raised |-> TRUE]
        ELSE IF p2.raised THEN [col |-> p2.col, raised |-> TRUE]
        ELSE [col |-> p3.col, raised |-> FALSE]

(***************************************************************************)
(* loop_impact_grid: state_dynamics on every impacted cell in list order;  *)
(* an exception ends the loop.  test_one_grid_cell acts only on the cell   *)
(* "0.1412 0.1867", which is no cell of this grid.                         *)
(***************************************************************************)
RECURSIVE loop_impact_grid(_, _, _, _, _, _, _)
loop_impact_grid(state, cells, diameter, avg, z, prim, ties) ==
    IF Len(cells) = 0 THEN [state |-> state, raised |-> FALSE]
    ELSE LET c == Head(cells)
             r == state_dynamics(state[c], diameter, avg, z, prim, ties)
             written == [state EXCEPT ![c] = r.col]
         IN  IF r.raised THEN [state |-> written, raised |-> TRUE]
             ELSE loop_impact_grid(written, Tail(cells), diameter, avg, z,
                                   prim, ties)

(***************************************************************************)
(* re_bin_sio2: the loop over range(s_min, s_max, ds) returns at the first *)
(* s where one of its two tests holds; falling out of the loop returns     *)
(* None.  A nan compares false with everything.                            *)
(***************************************************************************)
\* temp_state <= s and temp_state >= s, temp_state a rational in tenths
AtMost(t, s) == ~IsNaN(t) /\ t.num <= s * 10 * t.den
AtLeast(t, s) == ~IsNaN(t) /\ t.num >= s * 10 * t.den

re_bin_sio2(t) ==
    LET range == {s \in s_min..(s_max - 1) : (s - s_min) % ds = 0}
        Returns(s) == AtMost(t, s) \/ AtLeast(t, s_max)
    IN  IF \A s \in range : ~Returns(s) THEN None
        ELSE LET first == CHOOSE s \in range :
                              Returns(s) /\ \A r \in range : r < s => ~Returns(r)
             IN  IF AtMost(t, first) THEN first ELSE s_max

(***************************************************************************)
(* do_sample_percents                                                      *)
(***************************************************************************)
\* np.mean(column[0:2])
MeanTop2(col) ==
    LET top == Slice(col, 2)
        total == SeqSum(top)
    IN  IF total = NaN \/ Len(top) = 0 THEN RatNaN
        ELSE Norm(total, Len(top))

\* bar_list: the bins of the cells whose mean is no nan, None removed
RECURSIVE BarList(_, _)
BarList(state, cells) ==
    IF Len(cells) = 0 THEN <<>>
    ELSE LET mean_sio2 == MeanTop2(state[Head(cells)])
             bin == re_bin_sio2(mean_sio2)
             rest == BarList(state, Tail(cells))
         IN  IF ~IsNaN(mean_sio2) /\ bin # None THEN <<bin>> \o rest
             ELSE rest

Count(s, u) == Cardinality({k \in 1..Len(s) : s[k] = u})

bar_data(state) ==
    LET bar_list == BarList(state, GridCells)
    IN  [u \in SeqSet(bar_list) |->
            Rat(100 * Count(bar_list, u), Len(bar_list))]

(***************************************************************************)
(* __init__                                                                *)
(***************************************************************************)
Construct(z, prim) ==
    /\ z_discretized_km = z
    /\ primitive_initial_state = prim
    /\ average_target = Rat(prim, 1)
    /\ sim_time = 0
    /\ grid_cell_state = state_prep(z, prim)
    /\ impacted_grid_cells = <<>>
    /\ sample_percents = <<>>
    /\ crator_radius = 0
    /\ z_layers = 0
    /\ impact_loc = <<0, 0>>
    /\ impactor_diameter = 0
    /\ melt_layers = 0
    /\ upper_layer = {}
    /\ lower_layer = {}
    /\ raised = FALSE
    /\ rounds_up = NoTies
    /\ pre_state = state_prep(z, prim)
    /\ last_call = "__init__"

Init ==
    /\ \E z \in ZChoices : \E prim \in PrimitiveChoices : Construct(z, prim)
    /\ temp_state = Rat(0, 1)
    /\ rebin_result = None

\* how the roundings of an event can fall: down, and up where one is a tie
TieChoicesOf(state, cells, avg, m, prim) ==
    LET ups == IF Len(cells) > 0 /\ UpperLayer(m) # {}
                  /\ IsTie(UpperValue(avg))
               THEN BOOLEAN ELSE {FALSE}
        los == IF Len(cells) > 0 /\ LowerLayer(m) # {}
                  /\ IsTie(LowerValue(avg,
                         WtSiO2Upper(state[cells[1]], m, avg, prim)))
               THEN BOOLEAN ELSE {FALSE}
    IN  [upper : ups, lower : los]

(***************************************************************************)
(* update(impact_loc, impactor_diameter, sim_time): the driver calls it    *)
(* once per event, in chronological order.                                 *)
(***************************************************************************)
update(loc, diameter, t, ties) ==
    LET dims == impact_dimensions(diameter, z_discretized_km)
        cells == find_the_grid(loc, dims.crator_radius)
        avg == get_average_target(grid_cell_state, cells, dims.z_layers,
                                  primitive_initial_state)
        res == loop_impact_grid(grid_cell_state, cells, diameter, avg,
                                z_discretized_km, primitive_initial_state,
                                ties)
        m == MeltLayers(diameter, z_discretized_km)
    IN  /\ sim_time < MaxEvents
        /\ t = sim_time + 1
        \* ties is how this call's roundings fall where they are ties
        /\ ties \in TieChoicesOf(grid_cell_state, cells, avg, m,
                                   primitive_initial_state)
        /\ sim_time' = t
        /\ impact_loc' = loc
        /\ impactor_diameter' = diameter
        /\ crator_radius' = dims.crator_radius
        /\ z_layers' = dims.z_layers
        /\ impacted_grid_cells' = cells
        /\ pre_state' = grid_cell_state
        /\ last_call' = "update"
        /\ rounds_up' = ties
        /\ IF Len(cells) > 0
           THEN /\ average_target' = avg
                /\ grid_cell_state' = res.state
                /\ raised' = res.raised
                /\ melt_layers' = m
                /\ upper_layer' = UpperLayer(m)
                /\ lower_layer' = LowerLayer(m)
           ELSE /\ raised' = FALSE
                /\ UNCHANGED <<average_target, grid_cell_state, melt_layers,
                               upper_layer, lower_layer>>
        /\ UNCHANGED <<z_discretized_km, primitive_initial_state,
                       sample_percents, temp_state, rebin_result>>

do_sample_percents ==
    /\ sample_percents' = bar_data(grid_cell_state)
    /\ last_call' = "do_sample_percents"
    /\ UNCHANGED <<z_discretized_km, primitive_initial_state, grid_cell_state,
                   average_target, impacted_grid_cells, crator_radius,
                   z_layers, sim_time, impact_loc, impactor_diameter,
                   melt_layers, upper_layer, lower_layer, raised, rounds_up,
                   pre_state, temp_state, rebin_result>>

\* the ties the event of update(loc, diameter, ...) can meet
TieChoices(loc, diameter) ==
    LET dims == impact_dimensions(diameter, z_discretized_km)
        cells == find_the_grid(loc, dims.crator_radius)
    IN  TieChoicesOf(grid_cell_state, cells,
            get_average_target(grid_cell_state, cells, dims.z_layers,
                               primitive_initial_state),
            MeltLayers(diameter, z_discretized_km), primitive_initial_state)

Next ==
    \/ \E loc \in Locations : \E diameter \in Diameters :
          \E ties \in TieChoices(loc, diameter) :
              update(loc, diameter, sim_time + 1, ties)
    \/ do_sample_percents

Spec == Init /\ [][Next]_vars

(***************************************************************************)
(* re_bin_sio2 called on its own, on every value of RebinInputs, on an     *)
(* object built with the defaults.                                         *)
(***************************************************************************)
InitRebin ==
    /\ Construct(2, 450)
    /\ temp_state \in RebinInputs
    /\ rebin_result = None

call_re_bin_sio2 ==
    /\ last_call = "__init__"
    /\ rebin_result' = re_bin_sio2(temp_state)
    /\ last_call' = "re_bin_sio2"
    /\ UNCHANGED <<z_discretized_km, primitive_initial_state, grid_cell_state,
                   average_target, impacted_grid_cells, crator_radius,
                   z_layers, sim_time, sample_percents, impact_loc,
                   impactor_diameter, melt_layers, upper_layer, lower_layer,
                   raised, rounds_up, pre_state, temp_state>>

NextRebin == call_re_bin_sio2

SpecRebin == InitRebin /\ [][NextRebin]_vars

(***************************************************************************)
(* Properties.                                                             *)
(***************************************************************************)
Updated == last_call = "update"
Footprint == SeqSet(impacted_grid_cells)
IsPrimitive(col) == \A i \in 1..Len(col) : col[i] = primitive_initial_state

\* every order in which the cells of a footprint can be visited
Orders(cells) ==
    {o \in [1..Len(cells) -> SeqSet(cells)] :
        \A i, j \in 1..Len(cells) : o[i] = o[j] => i = j}

\* C1: within one event on a footprint of two or more cells, the average
\* target and the columns after the event are the same for every order in
\* which the footprint cells are visited.
C1_OrderIndependence ==
    (Updated /\ Len(impacted_grid_cells) >= 2) =>
        \A o \in Orders(impacted_grid_cells) :
            /\ get_average_target(pre_state, o, z_layers,
                   primitive_initial_state) = average_target
            /\ loop_impact_grid(pre_state, o, impactor_diameter,
                   average_target, z_discretized_km,
                   primitive_initial_state, rounds_up).state = grid_cell_state

\* C2: after initialization and after any sequence of update calls, every
\* cell of the working grid has a column of exactly
\* floor(max_depth_of_impact_melt / z_discretized_km) layers.
C2_ColumnLength ==
    /\ DOMAIN grid_cell_state = CellSet
    /\ \A c \in CellSet :
          /\ DOMAIN grid_cell_state[c] = 1..Len(grid_cell_state[c])
          /\ Len(grid_cell_state[c])
                 = max_depth_of_impact_melt \div z_discretized_km

\* several updates, the last of which ran past the end of a column
C2_Witness ==
    /\ Updated /\ sim_time >= 2 /\ raised
    /\ grid_cell_state # pre_state
    /\ \E c \in CellSet : ~IsPrimitive(pre_state[c])

NoCellInCrater ==
    \A c \in CellSet : CellDistance(impact_loc, c) > Km(5 * impactor_diameter)
NearestCells ==
    {c \in CellSet :
        \A c2 \in CellSet :
            CellDistance(impact_loc, c) <= CellDistance(impact_loc, c2)}
FallbackCase ==
    /\ Updated
    /\ NoCellInCrater
    /\ \E c \in CellSet : CellDistance(impact_loc, c) < Km(30)

\* C3: when no cell lies within the crater radius (5 x diameter) and the
\* nearest cell is closer than 30 km, exactly the cells at the minimum
\* distance (ties included) receive the mixing update of the event, and
\* every other column is left as it was.
C3_FallbackNearest ==
    FallbackCase =>
        /\ Footprint = NearestCells
        /\ Len(impacted_grid_cells) = Cardinality(NearestCells)
        /\ average_target = get_average_target(pre_state, impacted_grid_cells,
               CeilDiv(impactor_diameter, z_discretized_km),
               primitive_initial_state)
        /\ \A c \in NearestCells :
              grid_cell_state[c]
                  = state_dynamics(pre_state[c], impactor_diameter,
                        average_target, z_discretized_km,
                        primitive_initial_state, rounds_up).col
        /\ \A c \in CellSet \ NearestCells :
              grid_cell_state[c] = pre_state[c]

\* a fallback on two tied cells that changes both, the other cells keeping
\* the columns an earlier event gave them
C3_Witness ==
    /\ FallbackCase
    /\ Cardinality(NearestCells) = 2
    /\ \A c \in NearestCells : grid_cell_state[c] # pre_state[c]
    /\ \E c \in CellSet \ NearestCells : ~IsPrimitive(grid_cell_state[c])

RECURSIVE SumNums(_, _)
SumNums(f, S) ==
    IF S = {} THEN 0
    ELSE LET u == CHOOSE x \in S : TRUE
         IN  f[u].num + SumNums(f, S \ {u})

\* C4: after any sequence of events, the values of the mapping that
\* do_sample_percents produces sum to 100.
C4_PercentsSumTo100 ==
    last_call = "do_sample_percents" =>
        /\ DOMAIN sample_percents # {}
        /\ \A u \in DOMAIN sample_percents :
              SumNums(sample_percents, DOMAIN sample_percents)
                  = 100 * sample_percents[u].den

\* C5: re_bin_sio2 with the defaults returns the ceiling of the value
\* clamped to [1, 100]: 1 for values <= 1, 100 for values >= 100, the
\* smallest integer >= the value in between.
C5_CeilingWithClamp ==
    last_call = "re_bin_sio2" =>
        rebin_result =
            IF temp_state.num <= 1 * 10 * temp_state.den THEN 1
            ELSE IF temp_state.num >= 100 * 10 * temp_state.den THEN 100
            ELSE CeilDiv(temp_state.num, 10 * temp_state.den)

\* C6: an impact of diameter 0, at any location and in any reachable state,
\* leaves every column as it was before the event.
C6_ZeroDiameterNoChange ==
    (Updated /\ impactor_diameter = 0) => grid_cell_state = pre_state

\* a diameter-0 event whose footprint holds a cell an earlier event changed
C6_Witness ==
    /\ Updated /\ impactor_diameter = 0
    /\ \E c \in Footprint : ~IsPrimitive(pre_state[c])
    /\ IsNaN(average_target)

\* C7: an event that fails with an error inside the mixing rule leaves no
\* partial write: every column equals its value before the event.
C7_FailedEventLeavesNoPartialWrite ==
    (Updated /\ raised) => grid_cell_state = pre_state

RECURSIVE TopCount(_, _, _)
TopCount(state, cells, zl) ==
    IF Len(cells) = 0 THEN 0
    ELSE Len(Slice(state[Head(cells)], zl)) + TopCount(state, Tail(cells), zl)

\* C8: for a non-empty footprint and a diameter > 0, average_target is the
\* arithmetic mean of the top ceil(diameter / layer thickness) values over
\* the footprint cells; when those columns are uniformly primitive it is
\* the primitive composition.
C8_AverageIsMeanOfTopLayers ==
    (Updated /\ Len(impacted_grid_cells) > 0 /\ impactor_diameter > 0) =>
        LET zl == CeilDiv(impactor_diameter, z_discretized_km)
        IN  /\ ~IsNaN(average_target)
            /\ average_target.num * TopCount(pre_state, impacted_grid_cells, zl)
                   = TargetSum(pre_state, impacted_grid_cells, zl,
                         primitive_initial_state) * average_target.den
            /\ (\A c \in Footprint : IsPrimitive(pre_state[c])) =>
                   average_target = Rat(primitive_initial_state, 1)

\* v is r rounded to the nearest tenth
IsRounded(v, r) == ~IsNaN(r) /\ 2 * Abs(v * r.den - r.num) <= r.den

\* the layers of a footprint cell after a completed event, for a split at k
SplitAt(k, m) ==
    /\ upper_layer = {i \in 0..(m - 1) : i < k}
    /\ lower_layer = {i \in 0..(m - 1) : i >= k}
    /\ upper_layer \cap lower_layer = {}
    /\ upper_layer \cup lower_layer = 0..(m - 1)
    /\ ~raised =>
          \A c \in Footprint : \A i \in 0..(m - 1) :
              IsRounded(grid_cell_state[c][i + 1],
                  IF i < k THEN UpperValue(average_target)
                  ELSE LowerValue(average_target,
                           IF k > 0 THEN UpperValue(average_target)
                           ELSE Rat(primitive_initial_state, 1)))

ClaimedMeltLayers == impactor_diameter \div (3 * z_discretized_km)

\* C9 as amended: the disturbed layers [0, melt_layers) are split at
\* k = int(round(2/3 x melt_layers, 2)), the product rounded to two decimals
\* and then truncated, which is floor(2 x melt_layers / 3): the upper range
\* is [0, k), the lower range is [k, melt_layers), they are disjoint and
\* together cover [0, melt_layers).
C9_LayerSplitTruncates ==
    (Updated /\ Len(impacted_grid_cells) > 0) =>
        /\ melt_layers = ClaimedMeltLayers
        /\ SplitAt((2 * melt_layers) \div 3, melt_layers)

\* C9 as stated: the split is at 2/3 x melt_layers rounded to the nearest
\* integer.
C9_LayerSplitRoundsToNearest ==
    (Updated /\ Len(impacted_grid_cells) > 0) =>
        /\ melt_layers = ClaimedMeltLayers
        /\ SplitAt((4 * melt_layers + 3) \div 6, melt_layers)

\* a completed event that melts 4 layers of cells an earlier event changed:
\* 2/3 x 4 = 2.67 is truncated to 2
C9_Witness ==
    /\ Updated /\ Len(impacted_grid_cells) > 0 /\ ~raised
    /\ melt_layers = 4
    /\ upper_layer = {0, 1} /\ lower_layer = {2, 3}
    /\ \A c \in Footprint : ~IsPrimitive(pre_state[c])

\* C10: one update changes only layers below melt_layers =
\* floor(diameter x melt_fraction / layer_thickness) of footprint cells.
C10_FrameOfUpdate ==
    Updated =>
        \A c \in CellSet : \A i \in 1..Len(pre_state[c]) :
            (c \notin Footprint \/ i - 1 >= ClaimedMeltLayers) =>
                grid_cell_state[c][i] = pre_state[c][i]

\* an event that rewrites the melted layers of a footprint cell, keeps a
\* deeper layer that an earlier event wrote, and leaves a changed cell
\* outside the footprint alone
C10_Witness ==
    /\ Updated /\ ClaimedMeltLayers >= 1
    /\ \E c \in Footprint :
          /\ \E i \in 1..Len(pre_state[c]) :
                /\ i - 1 >= ClaimedMeltLayers
                /\ pre_state[c][i] # primitive_initial_state
                /\ grid_cell_state[c][i] = pre_state[c][i]
          /\ \E j \in 1..ClaimedMeltLayers :
                grid_cell_state[c][j] # pre_state[c][j]
    /\ \E c \in CellSet \ Footprint : ~IsPrimitive(pre_state[c])

====
